---------------------------- MODULE Spec2Model ----------------------------
(***************************************************************************)
(* LC oscillator model (src/model.py) and its three solvers                *)
(* (src/solver.py), driven as in src/simulation.py.                        *)
(*                                                                         *)
(* Numbers.  The program computes in IEEE doubles (Python float and        *)
(* numpy.float64).  A double is modelled as an exact rational, or one of   *)
(* +inf, -inf, nan; rounding is not modelled.  A rational is a sign and    *)
(* two naturals (numerator, denominator) in lowest terms; a natural is a   *)
(* little-endian sequence of limbs in base Base with no leading zero limb, *)
(* so that values are not limited to 32-bit integers.                      *)
(***************************************************************************)
EXTENDS Integers, Sequences, FiniteSets

Base == 100 * 100

\* --------------------------------------------------------- small helpers --

Limb(a, i) == IF i <= Len(a) THEN a[i] ELSE 0
\* The value of a natural of at most two limbs.
NSmall(a) == Len(a) <= 2
NToInt(a) == Limb(a, 1) + Base * Limb(a, 2)
NShift(a) == IF a = <<>> THEN <<>> ELSE <<0>> \o a
Sgn(x) == IF x < 0 THEN -1 ELSE IF x > 0 THEN 1 ELSE 0
Abs(x) == IF x < 0 THEN -x ELSE x

NOne == <<1>>
Nan == [k |-> "nan", s |-> 0, n |-> <<>>, d |-> NOne]
Inf(sg) == [k |-> "inf", s |-> sg, n |-> <<>>, d |-> NOne]
Zero == [k |-> "fin", s |-> 0, n |-> <<>>, d |-> NOne]
Val(sg, n, d) == [k |-> "fin", s |-> sg, n |-> n, d |-> d]

\* The double p / q for a literal fraction in lowest terms, |p|, q < Base.
Q(p, q) == IF p = 0 THEN Zero ELSE Val(Sgn(p), <<Abs(p)>>, <<q>>)

IsFin(x) == x.k = "fin"
IsZero(x) == x.k = "fin" /\ x.s = 0

\* Unary minus.
RNeg(x) == [x EXCEPT !.s = -x.s]

\* ----------------------------------------------------------- arithmetic --
\* One evaluator for the arithmetic of naturals and of doubles: Ar(op, x)
\* applies the operation named op to the arguments x.  The operations on
\* naturals (a, b: limb sequences; i: a limb index; c: a carry):
\*   NNorm<<a>>            a without leading zero limbs
\*   NFromInt<<m>>         the natural of a machine integer m >= 0
\*   NCmp<<a, b>>          -1, 0, 1 as a < b, a = b, a > b
\*   NAdd<<a, b>>, NSub<<a, b>> (a >= b), NMul<<a, b>>
\*   NMulSmall<<a, m>>     a * m for a limb m
\*   NDivMod<<a, b>>       <<a div b, a mod b>>, b # 0, by long division
\*   NGcd<<a, b>>          Euclid's algorithm
\* and on doubles (x, y):
\*   Fin<<sg, n, d>>       sg * n / d in lowest terms
\*   RAdd<<x, y>>, RMul<<x, y>>   IEEE sum and product
\*   NpDiv<<x, y>>         the quotient of numpy scalars
\*   RCmp<<x, y>>          -1, 0, 1 as x < y, x = y, x > y (finite x, y)
RECURSIVE Ar(_, _)
Ar(op, x) ==
    CASE op = "NCmpFrom" ->
            \* <<a, b, i>>: compare limbs i, i - 1, ..., 1
            IF x[3] = 0 THEN 0
            ELSE IF x[1][x[3]] < x[2][x[3]] THEN -1
            ELSE IF x[1][x[3]] > x[2][x[3]] THEN 1
            ELSE Ar("NCmpFrom", <<x[1], x[2], x[3] - 1>>)
      [] op = "NCmp" ->
            IF Len(x[1]) < Len(x[2]) THEN -1
            ELSE IF Len(x[1]) > Len(x[2]) THEN 1
            ELSE Ar("NCmpFrom", <<x[1], x[2], Len(x[1])>>)
      [] op = "NAddC" ->
            \* <<a, b, i, c>>
            IF x[3] > Len(x[1]) /\ x[3] > Len(x[2])
            THEN (IF x[4] = 0 THEN <<>> ELSE <<x[4]>>)
            ELSE LET t == Limb(x[1], x[3]) + Limb(x[2], x[3]) + x[4]
                 IN  <<t % Base>>
                     \o Ar("NAddC", <<x[1], x[2], x[3] + 1, t \div Base>>)
      [] op = "NAdd" -> Ar("NAddC", <<x[1], x[2], 1, 0>>)
      [] op = "NSubC" ->
            \* <<a, b, i, c>>
            IF x[3] > Len(x[1]) THEN <<>>
            ELSE LET t == x[1][x[3]] - Limb(x[2], x[3]) - x[4]
                 IN  IF t < 0
                     THEN <<t + Base>> \o Ar("NSubC", <<x[1], x[2], x[3] + 1, 1>>)
                     ELSE <<t>> \o Ar("NSubC", <<x[1], x[2], x[3] + 1, 0>>)
      [] op = "NSub" -> Ar("NNorm", <<Ar("NSubC", <<x[1], x[2], 1, 0>>)>>)
      [] op = "NNorm" ->
            IF x[1] = <<>> THEN <<>>
            ELSE IF x[1][Len(x[1])] = 0
                 THEN Ar("NNorm", <<SubSeq(x[1], 1, Len(x[1]) - 1)>>)
            ELSE x[1]
      [] op = "NMulSmallC" ->
            \* <<a, m, i, c>>
            IF x[3] > Len(x[1]) THEN (IF x[4] = 0 THEN <<>> ELSE <<x[4]>>)
            ELSE LET t == x[1][x[3]] * x[2] + x[4]
                 IN  <<t % Base>>
                     \o Ar("NMulSmallC", <<x[1], x[2], x[3] + 1, t \div Base>>)
      [] op = "NMulSmall" ->
            IF x[2] = 0 THEN <<>> ELSE Ar("NMulSmallC", <<x[1], x[2], 1, 0>>)
      [] op = "NMulFrom" ->
            \* <<a, b, i>>: (a's limbs from i on) * b
            IF x[3] > Len(x[1]) THEN <<>>
            ELSE Ar("NAdd", <<Ar("NMulSmall", <<x[2], x[1][x[3]]>>),
                              NShift(Ar("NMulFrom", <<x[1], x[2], x[3] + 1>>))>>)
      [] op = "NMul" ->
            IF Len(x[1]) <= 1 /\ Len(x[2]) <= 1
            THEN Ar("NFromInt", <<NToInt(x[1]) * NToInt(x[2])>>)
            ELSE IF Len(x[1]) <= Len(x[2])
                 THEN Ar("NMulFrom", <<x[1], x[2], 1>>)
                 ELSE Ar("NMulFrom", <<x[2], x[1], 1>>)
      [] op = "NFromInt" ->
            IF x[1] = 0 THEN <<>>
            ELSE <<x[1] % Base>> \o Ar("NFromInt", <<x[1] \div Base>>)
      [] op = "NQSearch" ->
            \* <<r, b, lo, hi>>: the largest q in lo..hi with b * q <= r
            IF x[3] >= x[4] THEN x[3]
            ELSE LET mid == (x[3] + x[4] + 1) \div 2
                 IN  IF Ar("NCmp", <<Ar("NMulSmall", <<x[2], mid>>), x[1]>>) <= 0
                     THEN Ar("NQSearch", <<x[1], x[2], mid, x[4]>>)
                     ELSE Ar("NQSearch", <<x[1], x[2], x[3], mid - 1>>)
      [] op = "NQDigit" ->
            \* <<r, b>>: floor(r / b) for r < b * Base, one limb of a quotient
            IF Ar("NCmp", <<x[1], x[2]>>) < 0 THEN 0
            ELSE LET top == x[2][Len(x[2])]
                     r2  == IF Len(x[1]) > Len(x[2])
                            THEN x[1][Len(x[1])] * Base + x[1][Len(x[1]) - 1]
                            ELSE x[1][Len(x[1])]
                     hi  == IF r2 \div top > Base - 1 THEN Base - 1
                            ELSE r2 \div top
                 IN  Ar("NQSearch", <<x[1], x[2], r2 \div (top + 1), hi>>)
      [] op = "NDivFrom" ->
            \* <<a, b, i, rem, q>>: long division from limb i down; q collects
            \* the quotient's limbs, rem is the running remainder
            IF x[3] = 0 THEN <<x[5], x[4]>>
            ELSE LET r  == Ar("NNorm", <<(<<x[1][x[3]]>> \o x[4])>>)
                     qd == Ar("NQDigit", <<r, x[2]>>)
                     r1 == IF qd = 0 THEN r
                           ELSE Ar("NSub", <<r, Ar("NMulSmall", <<x[2], qd>>)>>)
                 IN  Ar("NDivFrom", <<x[1], x[2], x[3] - 1, r1, <<qd>> \o x[5]>>)
      [] op = "NDivMod" ->
            \* the top Len(b) - 1 limbs of a are below b: the division starts
            \* with them as the remainder
            IF NSmall(x[1]) /\ NSmall(x[2])
            THEN <<Ar("NFromInt", <<NToInt(x[1]) \div NToInt(x[2])>>),
                   Ar("NFromInt", <<NToInt(x[1]) % NToInt(x[2])>>)>>
            ELSE IF Ar("NCmp", <<x[1], x[2]>>) < 0 THEN <<(<<>>), x[1]>>
            ELSE LET lo == Len(x[1]) - Len(x[2]) + 1
                     qr == Ar("NDivFrom",
                              <<x[1], x[2], lo,
                                SubSeq(x[1], lo + 1, Len(x[1])), <<>> >>)
                 IN  <<Ar("NNorm", <<qr[1]>>), qr[2]>>
      [] op = "IGcd" ->
            IF x[2] = 0 THEN x[1] ELSE Ar("IGcd", <<x[2], x[1] % x[2]>>)
      [] op = "NGcdStep" ->
            \* <<a, b>>: one step of Euclid's algorithm, <<b, a mod b>>; a pair
            \* whose second component is zero is left as it is
            IF x[2] = <<>> THEN x
            ELSE <<x[2], Ar("NDivMod", <<x[1], x[2]>>)[2]>>
      [] op = "NGcd" ->
            \* eight steps of Euclid's algorithm at a time
            IF x[2] = <<>> THEN x[1]
            ELSE IF NSmall(x[1]) /\ NSmall(x[2])
                 THEN Ar("NFromInt", <<Ar("IGcd", <<NToInt(x[1]), NToInt(x[2])>>)>>)
            ELSE Ar("NGcd",
                    Ar("NGcdStep", Ar("NGcdStep", Ar("NGcdStep", Ar("NGcdStep",
                    Ar("NGcdStep", Ar("NGcdStep", Ar("NGcdStep", Ar("NGcdStep",
                       x)))))))))
      [] op = "Fin" ->
            \* <<sg, n, d>>, d # 0
            IF x[2] = <<>> \/ x[1] = 0 THEN Zero
            ELSE LET g == Ar("NGcd", <<x[2], x[3]>>)
                 IN  IF g = NOne THEN Val(x[1], x[2], x[3])
                     ELSE Val(x[1], Ar("NDivMod", <<x[2], g>>)[1],
                              Ar("NDivMod", <<x[3], g>>)[1])
      [] op = "FinAdd" ->
            \* <<x, y, a, b>>, both finite and not zero, a = x.n * y.d and
            \* b = y.n * x.d: the signed numerators over the denominator x.d * y.d
            IF x[1].s = x[2].s
            THEN Ar("Fin", <<x[1].s, Ar("NAdd", <<x[3], x[4]>>),
                             Ar("NMul", <<x[1].d, x[2].d>>)>>)
            ELSE IF Ar("NCmp", <<x[3], x[4]>>) >= 0
                 THEN Ar("Fin", <<x[1].s, Ar("NSub", <<x[3], x[4]>>),
                                  Ar("NMul", <<x[1].d, x[2].d>>)>>)
                 ELSE Ar("FinAdd", <<x[2], x[1], x[4], x[3]>>)
      [] op = "RAdd" ->
            \* inf + (-inf) is nan
            IF x[1].k = "nan" \/ x[2].k = "nan" THEN Nan
            ELSE IF x[1].k = "inf" /\ x[2].k = "inf"
                 THEN (IF x[1].s = x[2].s THEN x[1] ELSE Nan)
            ELSE IF x[1].k = "inf" THEN x[1]
            ELSE IF x[2].k = "inf" THEN x[2]
            ELSE IF x[1].s = 0 THEN x[2]
            ELSE IF x[2].s = 0 THEN x[1]
            ELSE Ar("FinAdd", <<x[1], x[2], Ar("NMul", <<x[1].n, x[2].d>>),
                                Ar("NMul", <<x[2].n, x[1].d>>)>>)
      [] op = "RMul" ->
            \* inf * 0 is nan
            IF x[1].k = "nan" \/ x[2].k = "nan" THEN Nan
            ELSE IF x[1].k = "inf" \/ x[2].k = "inf"
                 THEN (IF x[1].s * x[2].s = 0 THEN Nan ELSE Inf(x[1].s * x[2].s))
            ELSE IF x[1].s * x[2].s = 0 THEN Zero
            ELSE Ar("Fin", <<x[1].s * x[2].s, Ar("NMul", <<x[1].n, x[2].n>>),
                             Ar("NMul", <<x[1].d, x[2].d>>)>>)
      [] op = "NpDiv" ->
            \* a zero divisor gives inf or nan (and a warning), no exception;
            \* the program's divisors are its integer parameters, whose zero is +0
            IF x[1].k = "nan" \/ x[2].k = "nan" THEN Nan
            ELSE IF x[1].k = "inf"
                 THEN (IF x[2].k = "inf" THEN Nan
                       ELSE IF x[2].s = 0 THEN x[1]
                       ELSE Inf(x[1].s * x[2].s))
            ELSE IF x[2].k = "inf" THEN Zero
            ELSE IF x[2].s = 0 THEN (IF x[1].s = 0 THEN Nan ELSE Inf(x[1].s))
            ELSE IF x[1].s = 0 THEN Zero
            ELSE Ar("Fin", <<x[1].s * x[2].s, Ar("NMul", <<x[1].n, x[2].d>>),
                             Ar("NMul", <<x[1].d, x[2].n>>)>>)
      [] op = "RCmp" ->
            IF x[1].s # x[2].s THEN Sgn(x[1].s - x[2].s)
            ELSE IF x[1].s = 0 THEN 0
            ELSE x[1].s * Ar("NCmp", <<Ar("NMul", <<x[1].n, x[2].d>>),
                                       Ar("NMul", <<x[2].n, x[1].d>>)>>)

\* x + y, x - y, x * y of doubles.
RAdd(x, y) == Ar("RAdd", <<x, y>>)
RSub(x, y) == Ar("RAdd", <<x, RNeg(y)>>)
RMul(x, y) == Ar("RMul", <<x, y>>)

\* x / y of numpy scalars.
NpDiv(x, y) == Ar("NpDiv", <<x, y>>)

\* x / y of Python numbers raises ZeroDivisionError exactly when y is zero.
PyDivRaises(y) == IsZero(y)

\* -1, 0, 1 as x < y, x = y, x > y, for finite x and y.
RCmp(x, y) == Ar("RCmp", <<x, y>>)

\* ceil(x) as a machine integer, for finite x >= 0.
RCeil(x) ==
    LET qr == Ar("NDivMod", <<x.n, x.d>>)
    IN  NToInt(qr[1]) + (IF qr[2] = <<>> THEN 0 ELSE 1)

\* floor(x) as a machine integer, for finite x >= 0.
RFloor(x) == NToInt(Ar("NDivMod", <<x.n, x.d>>)[1])

\* ------------------------------------------------------------ the state --

VARIABLES
    sim,               \* Simulation's fields: the arguments of the run
    pc,                \* "model_init", "solver_init", "idle", "loop"
    inductance,        \* LCOscillatorModel.inductance
    capacitance,       \* LCOscillatorModel.capacitance
    initial_current,   \* LCOscillatorModel.initial_current
    initial_voltage,   \* LCOscillatorModel.initial_voltage
    state,             \* LCOscillatorModel.state: the rows of the array
    solving_time,      \* LCOscillatorModel.solving_time
    step_size,         \* SolverInterface.step_size
    simulation_time,   \* SolverInterface.simulation_time
    time_steps,        \* SolverInterface.time_steps
    it,                \* grid points the running solve() has consumed
    last_state,        \* solve()'s local last_state
    new_state,         \* solve()'s local new_state
    calls,             \* solve() calls started
    done,              \* solve() calls that returned
    exc,               \* the exception the last solve() call ended with
    ret                \* what the last read since the last solve() returned

vars == <<sim, pc, inductance, capacitance, initial_current, initial_voltage,
          state, solving_time, step_size, simulation_time, time_steps, it,
          last_state, new_state, calls, done, exc, ret>>

modelFields == <<inductance, capacitance, initial_current, initial_voltage>>
solverFields == <<step_size, simulation_time, time_steps>>

\* --------------------------------------------------- bounds and inputs --

MaxSolves == 2
MaxDuration == 1

Inductances == {Q(-1, 1), Q(0, 1), Q(1, 1), Q(2, 1)}
Capacitances == {Q(-1, 1), Q(0, 1), Q(1, 1)}
Currents == {Q(0, 1), Q(1, 1)}
Voltages == {Q(0, 1), Q(1, 1)}
StepSizes == {Q(1, 2), Q(1, 1)}
SimulationTimes == {Q(1, 2), Q(3, 4)}
Solvers == {"SimpleEulerSolver", "BackwardEulerSolver", "SimpleRungeKutta"}

NoPair == <<Zero, Zero>>
NoRet == [op |-> "none", val |-> <<>>]
\* Python's False, which solving_time holds until a solve() returns.
PyFalse == [kind |-> "bool", val |-> 0]
PyFloat(x) == [kind |-> "float", val |-> x]

\* ---------------------------------------------------- LCOscillatorModel --

\* state[-1]
get_last_state == state[Len(state)]

\* get_last_state_y without the change of coordinates: the stored entry.
get_last_state_y_raw == <<state[Len(state)][1], state[Len(state)][2]>>

\* [state[-1, 0], -state[-1, 1] / inductance]
get_last_state_y ==
    <<state[Len(state)][1], NpDiv(RNeg(state[Len(state)][2]), inductance)>>

\* -last_state[0] / (inductance * capacitance)
last_equation_y ==
    NpDiv(RNeg(get_last_state_y[1]), RMul(inductance, capacitance))

\* add_new_state storing the natural pair as it is given.
add_new_state_unscaled(new_state_y) ==
    Append(state, <<new_state_y[1], new_state_y[2]>>)

\* add_new_state with -inductance + y1 for -inductance * y1.
add_new_state_sum(new_state_y) ==
    Append(state, <<new_state_y[1], RAdd(RNeg(inductance), new_state_y[2])>>)

\* np.append(state, [[new_state_y[0], -inductance * new_state_y[1]]], axis=0)
add_new_state(new_state_y) ==
    Append(state, <<new_state_y[1], RMul(RNeg(inductance), new_state_y[2])>>)

\* -------------------------------------------------------------- solvers --

\* arange with floor(stop / step) points.
arange_floor(stop, step) ==
    [i \in 1..RFloor(NpDiv(stop, step)) |-> RMul(Q(i - 1, 1), step)]

\* np.arange(0, simulation_time, step_size): ceil(simulation_time / step_size)
\* points 0, step_size, 2 * step_size, ...
arange(stop, step) ==
    [i \in 1..RCeil(NpDiv(stop, step)) |-> RMul(Q(i - 1, 1), step)]

\* The Euler pass with y1 advanced from the new y0 instead of the old one.
SimpleEulerNewState_new(ls) ==
    LET y_1_new == RAdd(ls[1], RMul(ls[2], step_size))
    IN  <<y_1_new,
          RAdd(ls[2], RMul(NpDiv(RNeg(y_1_new), RMul(inductance, capacitance)),
                           step_size))>>

\* The new_state of one pass of SimpleEulerSolver.solve's loop.
SimpleEulerNewState(ls) ==
    <<RAdd(ls[1], RMul(ls[2], step_size)),
      RAdd(ls[2], RMul(last_equation_y, step_size))>>

\* y_2_new_func raises ZeroDivisionError: its divisions are of Python numbers.
y_2_new_func_raises ==
    \/ PyDivRaises(RMul(inductance, capacitance))
    \/ PyDivRaises(RAdd(Q(1, 1), NpDiv(RMul(step_size, step_size),
                                        RMul(inductance, capacitance))))

\* y_2_new_func with a = 1 / (1 - step_size ** 2 / (L * C)).
y_2_new_func_minus(y_1_old, y_2_old) ==
    LET a == NpDiv(Q(1, 1),
                   RSub(Q(1, 1), NpDiv(RMul(step_size, step_size),
                                       RMul(inductance, capacitance))))
        b == NpDiv(step_size, RMul(inductance, capacitance))
    IN  RSub(RMul(a, y_2_old), RMul(b, y_1_old))

y_2_new_func(y_1_old, y_2_old) ==
    LET a == NpDiv(Q(1, 1),
                   RAdd(Q(1, 1), NpDiv(RMul(step_size, step_size),
                                         RMul(inductance, capacitance))))
        b == NpDiv(step_size, RMul(inductance, capacitance))
    IN  RSub(RMul(a, y_2_old), RMul(b, y_1_old))

\* The new_state of one pass of BackwardEulerSolver.solve's loop.
BackwardEulerNewState(ls) ==
    LET y_2_new == y_2_new_func(ls[1], ls[2])
        y_1_new == RAdd(ls[1], RMul(y_2_new, step_size))
    IN  <<y_1_new, y_2_new>>

y_new(y_old, y_func) ==
    LET k_1 == y_func
        k_2 == RAdd(y_func, NpDiv(RMul(step_size, k_1), Q(2, 1)))
        k_3 == RAdd(y_func, NpDiv(RMul(step_size, k_2), Q(2, 1)))
        k_4 == RAdd(y_func, RMul(step_size, k_3))
        y_delta == NpDiv(RMul(step_size,
                              RAdd(RAdd(RAdd(k_1, RMul(Q(2, 1), k_2)),
                                        RMul(Q(2, 1), k_3)), k_4)),
                         Q(6, 1))
    IN  RAdd(y_old, y_delta)

\* The new_state of one pass of SimpleRungeKutta.solve's loop.
SimpleRungeKuttaNewState(ls) ==
    <<y_new(ls[1], ls[2]),
      y_new(ls[2], NpDiv(RNeg(ls[1]), RMul(inductance, capacitance)))>>

\* -------------------------------------------------------------- actions --

\* Simulation.__init__ has stored its arguments, one of sims; the
\* constructors follow.
InitWith(sims) ==
    /\ sim \in sims
    /\ pc = "model_init"
    /\ inductance = Zero /\ capacitance = Zero
    /\ initial_current = Zero /\ initial_voltage = Zero
    /\ state = <<>>
    /\ solving_time = PyFalse
    /\ step_size = Zero /\ simulation_time = Zero /\ time_steps = <<>>
    /\ it = 0 /\ last_state = NoPair /\ new_state = NoPair
    /\ calls = 0 /\ done = 0 /\ exc = "none" /\ ret = NoRet

Init ==
    InitWith([inductance : Inductances, capacitance : Capacitances,
              initial_current : Currents, initial_voltage : Voltages,
              step_size : StepSizes, simulation_time : SimulationTimes,
              solver : Solvers])

\* LCOscillatorModel.__init__: no argument is checked.
ModelInit ==
    /\ pc = "model_init"
    /\ inductance' = sim.inductance
    /\ capacitance' = sim.capacitance
    /\ initial_current' = sim.initial_current
    /\ initial_voltage' = sim.initial_voltage
    /\ state' = << <<sim.initial_current, sim.initial_voltage>> >>
    /\ solving_time' = PyFalse
    /\ pc' = "solver_init"
    /\ UNCHANGED <<sim, solverFields, it, last_state, new_state, calls, done,
                   exc, ret>>

\* SolverInterface.__init__, through the constructor of the chosen solver.
SolverInit ==
    /\ pc = "solver_init"
    /\ step_size' = sim.step_size
    /\ simulation_time' = sim.simulation_time
    /\ time_steps' = arange(sim.simulation_time, sim.step_size)
    /\ pc' = "idle"
    /\ UNCHANGED <<sim, modelFields, state, solving_time, it, last_state,
                   new_state, calls, done, exc, ret>>

\* solve() starting over from the initial condition.
SolveStart_reset ==
    /\ pc = "idle"
    /\ calls < MaxSolves
    /\ calls' = calls + 1
    /\ it' = 0
    /\ exc' = "none"
    /\ pc' = "loop"
    /\ ret' = NoRet
    /\ state' = <<state[1]>>
    /\ UNCHANGED <<sim, modelFields, solving_time, solverFields,
                   last_state, new_state, done>>

\* solve() storing its start time in model.solving_time.
SolveStart_stamps ==
    /\ pc = "idle"
    /\ calls < MaxSolves
    /\ calls' = calls + 1
    /\ it' = 0
    /\ exc' = "none"
    /\ pc' = "loop"
    /\ ret' = NoRet
    /\ solving_time' = PyFloat(0)
    /\ UNCHANGED <<sim, modelFields, state, solverFields,
                   last_state, new_state, done>>

\* solve() is called: start_time = time(), and the loop is entered.
SolveStart ==
    /\ pc = "idle"
    /\ calls < MaxSolves
    /\ calls' = calls + 1
    /\ it' = 0
    /\ exc' = "none"
    /\ pc' = "loop"
    /\ ret' = NoRet
    /\ UNCHANGED <<sim, modelFields, state, solving_time, solverFields,
                   last_state, new_state, done>>

\* One pass of the loop of SimpleEulerSolver.solve.
SimpleEulerStep ==
    /\ pc = "loop" /\ sim.solver = "SimpleEulerSolver"
    /\ it < Len(time_steps)
    /\ last_state' = get_last_state_y
    /\ new_state' = SimpleEulerNewState(get_last_state_y)
    /\ state' = add_new_state(SimpleEulerNewState(get_last_state_y))
    /\ it' = it + 1
    /\ UNCHANGED <<sim, pc, modelFields, solving_time, solverFields, calls,
                   done, exc, ret>>

\* One pass of the loop of BackwardEulerSolver.solve; a ZeroDivisionError of
\* y_2_new_func ends the call.
BackwardEulerStep ==
    /\ pc = "loop" /\ sim.solver = "BackwardEulerSolver"
    /\ it < Len(time_steps)
    /\ last_state' = get_last_state_y
    /\ IF y_2_new_func_raises
       THEN /\ exc' = "ZeroDivisionError"
            /\ pc' = "idle"
            /\ UNCHANGED <<new_state, state, it>>
       ELSE /\ new_state' = BackwardEulerNewState(get_last_state_y)
            /\ state' = add_new_state(BackwardEulerNewState(get_last_state_y))
            /\ it' = it + 1
            /\ UNCHANGED <<pc, exc>>
    /\ UNCHANGED <<sim, modelFields, solving_time, solverFields, calls, done,
                   ret>>

\* One pass of the loop of SimpleRungeKutta.solve.
SimpleRungeKuttaStep ==
    /\ pc = "loop" /\ sim.solver = "SimpleRungeKutta"
    /\ it < Len(time_steps)
    /\ last_state' = get_last_state_y
    /\ new_state' = SimpleRungeKuttaNewState(get_last_state_y)
    /\ state' = add_new_state(SimpleRungeKuttaNewState(get_last_state_y))
    /\ it' = it + 1
    /\ UNCHANGED <<sim, pc, modelFields, solving_time, solverFields, calls,
                   done, exc, ret>>

\* The loop is over: end_time = time(), model.solving_time = end - start.
SolveFinish ==
    /\ pc = "loop"
    /\ it = Len(time_steps)
    /\ \E d \in 0..MaxDuration : solving_time' = PyFloat(d)
    /\ done' = done + 1
    /\ pc' = "idle"
    /\ UNCHANGED <<sim, modelFields, state, solverFields, it, last_state,
                   new_state, calls, exc, ret>>

\* A caller reads the model between calls of solve().
GetLastState ==
    /\ pc = "idle"
    /\ ret' = [op |-> "get_last_state", val |-> get_last_state]
    /\ UNCHANGED <<sim, pc, modelFields, state, solving_time, solverFields,
                   it, last_state, new_state, calls, done, exc>>

GetLastStateY ==
    /\ pc = "idle"
    /\ ret' = [op |-> "get_last_state_y", val |-> get_last_state_y]
    /\ UNCHANGED <<sim, pc, modelFields, state, solving_time, solverFields,
                   it, last_state, new_state, calls, done, exc>>

LastEquationY ==
    /\ pc = "idle"
    /\ ret' = [op |-> "last_equation_y", val |-> <<last_equation_y>>]
    /\ UNCHANGED <<sim, pc, modelFields, state, solving_time, solverFields,
                   it, last_state, new_state, calls, done, exc>>

Next ==
    \/ ModelInit
    \/ SolverInit
    \/ SolveStart
    \/ SimpleEulerStep
    \/ BackwardEulerStep
    \/ SimpleRungeKuttaStep
    \/ SolveFinish
    \/ GetLastState
    \/ GetLastStateY
    \/ LastEquationY

Spec == Init /\ [][Next]_vars

\* ------------------------------------------- one run of the simulation --
\* The run of src/simulation.py: one call of solve() on a fresh model, here with
\* the unit circuit over one second in steps of 0.1 or 0.2.

UnitRuns ==
    [inductance : {Q(1, 1)}, capacitance : {Q(1, 1)},
     initial_current : Currents, initial_voltage : Voltages,
     step_size : {Q(1, 10), Q(1, 5)}, simulation_time : {Q(1, 1)},
     solver : {"SimpleEulerSolver", "BackwardEulerSolver"}]

InitRun == InitWith(UnitRuns)

NextRun ==
    \/ ModelInit
    \/ SolverInit
    \/ (calls = 0 /\ SolveStart)
    \/ SimpleEulerStep
    \/ BackwardEulerStep
    \/ SolveFinish

SpecRun == InitRun /\ [][NextRun]_vars

\* ----------------------------------------------------------- properties --

Constructed == pc # "model_init"
Built == pc \in {"idle", "loop"}

\* n = ceil(T / dt): (n - 1) * dt < T <= n * dt.
IsCeilOf(n, T, dt) ==
    /\ n >= 1
    /\ RCmp(RMul(Q(n - 1, 1), dt), T) < 0
    /\ RCmp(RMul(Q(n, 1), dt), T) >= 0

\* n = floor(T / dt): n * dt <= T < (n + 1) * dt.
IsFloorOf(n, T, dt) ==
    /\ n >= 0
    /\ RCmp(RMul(Q(n, 1), dt), T) <= 0
    /\ RCmp(RMul(Q(n + 1, 1), dt), T) > 0

\* The natural coordinates (y0, -y1 / inductance) of a History entry.
Natural(e) == <<e[1], NpDiv(RNeg(e[2]), inductance)>>

\* The square of the natural-coordinate norm of a History entry; norms compare
\* as their squares do.
NormSq(e) ==
    RAdd(RMul(Natural(e)[1], Natural(e)[1]), RMul(Natural(e)[2], Natural(e)[2]))

\* The parameters of the energy tests: L = C = 1, initial_current = 0,
\* initial_voltage = 1, step_size = 0.1, simulation_time = 1.
EnergyRun(solver) ==
    sim = [inductance |-> Q(1, 1), capacitance |-> Q(1, 1),
           initial_current |-> Q(0, 1), initial_voltage |-> Q(1, 1),
           step_size |-> Q(1, 10), simulation_time |-> Q(1, 1),
           solver |-> solver]

\* C1 as the spec states it: the Time Grid has floor(simulation_time /
\* step_size) points, and after one solve() on a fresh model the History has
\* floor(simulation_time / step_size) + 1 entries.
C1_GridLengthFloor ==
    /\ Built => IsFloorOf(Len(time_steps), simulation_time, step_size)
    /\ (pc = "idle" /\ calls = 1 /\ done = 1)
          => IsFloorOf(Len(state) - 1, simulation_time, step_size)

\* C1, amended: the Time Grid has ceil(simulation_time / step_size) points (the
\* points k * step_size below simulation_time), and after one solve() that
\* returned on a fresh model the History has ceil(simulation_time / step_size)
\* + 1 entries, for each of the three solvers.
C1_GridLengthCeil ==
    /\ Built => IsCeilOf(Len(time_steps), simulation_time, step_size)
    /\ Built => \A i \in 1..Len(time_steps) :
                    /\ time_steps[i] = RMul(Q(i - 1, 1), step_size)
                    /\ RCmp(time_steps[i], simulation_time) < 0
    /\ (pc = "idle" /\ calls = 1 /\ done = 1)
          => IsCeilOf(Len(state) - 1, simulation_time, step_size)

\* A solve() returned on a grid whose simulation_time (0.75) is no multiple of
\* step_size (0.5): two points, three History entries.
C1_Witness ==
    /\ pc = "idle" /\ calls = 1 /\ done = 1
    /\ simulation_time = Q(3, 4) /\ step_size = Q(1, 2)
    /\ Len(state) = 3

\* C2: a Model with a seeded History exists only for inductance > 0 and
\* capacitance > 0; other parameters are rejected at construction.
C2_InvalidParameterRejected ==
    Len(state) >= 1 => (inductance.s = 1 /\ capacitance.s = 1)

\* C3: with inductance * capacitance = 0, last_equation_y (and, with
\* inductance = 0, get_last_state_y) returns no value, a solve() call ends
\* with a division-by-zero error, and no state is appended.
C3_DivisionByZeroSignalled ==
    (Constructed /\ IsZero(RMul(inductance, capacitance))) =>
        /\ Len(state) = 1
        /\ ret.op # "last_equation_y"
        /\ IsZero(inductance) => ret.op # "get_last_state_y"
        /\ (pc = "idle" /\ calls > 0) => exc = "ZeroDivisionError"

\* C4: the History is append-only.  A step either leaves state alone, or is a
\* pass of a solver's loop that appends one entry (y0_new, -inductance *
\* y1_new) for the natural pair new_state it computed and keeps every earlier
\* entry at its index; the read operations, which run between solve() calls,
\* leave it alone.
C4_AppendOnly ==
    [][\/ pc = "model_init"
       \/ state' = state
       \/ /\ pc = "loop"
          /\ Len(state') = Len(state) + 1
          /\ SubSeq(state', 1, Len(state)) = state
          /\ state'[Len(state')]
                = <<new_state'[1], RNeg(RMul(inductance, new_state'[2]))>>]_vars

\* A read operation returned after two entries were appended.
C4_Witness ==
    /\ Len(state) >= 3
    /\ ret.op = "get_last_state_y"
    /\ inductance = Q(2, 1)
    /\ ~IsZero(state[3][2])

\* C5: with the energy-test parameters, after BackwardEulerSolver.solve() the
\* natural-coordinate norm of the last History entry does not exceed that of
\* the first; each entry's y0 is the previous y0 plus the NEW y1 times
\* step_size.
C5_BackwardEulerBounded ==
    (EnergyRun("BackwardEulerSolver") /\ Constructed) =>
        /\ \A j \in 2..Len(state) :
              Natural(state[j])[1]
                 = RAdd(Natural(state[j - 1])[1],
                        RMul(Natural(state[j])[2], step_size))
        /\ done = 1 => RCmp(NormSq(state[Len(state)]), NormSq(state[1])) <= 0

C5_Witness ==
    EnergyRun("BackwardEulerSolver") /\ done = 1 /\ Len(state) = 11

\* C6: with the energy-test parameters, after SimpleEulerSolver.solve() the
\* natural-coordinate norm of the last History entry strictly exceeds that of
\* the first; each entry is y0 + y1 * step_size, y1 + (-y0 / (L * C)) *
\* step_size of the previous entry's natural pair (y0, y1).
C6_SimpleEulerGrowth ==
    (EnergyRun("SimpleEulerSolver") /\ Constructed) =>
        /\ \A j \in 2..Len(state) :
              LET y == Natural(state[j - 1])
              IN  Natural(state[j])
                    = <<RAdd(y[1], RMul(y[2], step_size)),
                        RAdd(y[2], RMul(NpDiv(RNeg(y[1]),
                                              RMul(inductance, capacitance)),
                                        step_size))>>
        /\ done = 1 => RCmp(NormSq(state[Len(state)]), NormSq(state[1])) > 0

C6_Witness ==
    EnergyRun("SimpleEulerSolver") /\ done = 1 /\ Len(state) = 11

\* C7: History[0] is the raw pair (initial_current, initial_voltage); the last
\* entry of a longer History (so every entry after the first, when it was
\* appended) is the scaled form (y0, -inductance * y1) of the natural pair
\* new_state the solver computed; and the first pass of the first solve() reads
\* the natural state (initial_current, -initial_voltage / inductance).
C7_InitialEntryRaw ==
    Constructed =>
        /\ state[1] = <<sim.initial_current, sim.initial_voltage>>
        /\ state[1] = <<initial_current, initial_voltage>>
        /\ Len(state) >= 2 =>
              state[Len(state)]
                 = <<new_state[1], RNeg(RMul(inductance, new_state[2]))>>
        /\ (calls = 1 /\ pc = "loop" /\ it = 1 /\ ~IsZero(inductance)) =>
              /\ last_state[1] = initial_current
              /\ RMul(last_state[2], inductance) = RNeg(initial_voltage)

\* The first pass of the first solve() has run with inductance 2 and
\* initial_voltage 1, where raw and scaled forms differ.
C7_Witness ==
    /\ calls = 1 /\ pc = "loop" /\ it = 1
    /\ inductance = Q(2, 1) /\ initial_voltage = Q(1, 1)

\* C8: with initial_current = initial_voltage = 0 and nonzero inductance and
\* capacitance, every History entry is (0, 0) in every state.
C8_ZeroStateInvariance ==
    (/\ Constructed
     /\ IsZero(initial_current) /\ IsZero(initial_voltage)
     /\ ~IsZero(inductance) /\ ~IsZero(capacitance))
        => \A j \in 1..Len(state) : state[j] = <<Zero, Zero>>

C8_Witness ==
    /\ IsZero(initial_current) /\ IsZero(initial_voltage)
    /\ inductance = Q(2, 1) /\ capacitance = Q(1, 1)
    /\ sim.solver = "SimpleRungeKutta"
    /\ pc = "loop" /\ Len(state) >= 3

\* C9: a repeated solve() is accepted and appends a further run: whenever a
\* solve() has returned, the History has 1 + done * N entries for the N grid
\* points (1 + N after the first call, 1 + 2N after the second); once the first
\* call has returned, its 1 + N entries never change; and the first pass of a
\* later call reads the last entry the earlier call left.
C9_RepeatedSolveAppends ==
    /\ []((pc = "idle" /\ exc = "none" /\ Built)
             => Len(state) = 1 + done * Len(time_steps))
    /\ []((calls >= 2 /\ pc = "loop" /\ it = 1 /\ ~IsZero(inductance)) =>
             /\ Len(state) = 2 + done * Len(time_steps)
             /\ last_state[1] = state[Len(state) - 1][1]
             /\ RMul(last_state[2], inductance) = RNeg(state[Len(state) - 1][2]))
    /\ [][done >= 1 =>
             /\ Len(state') >= 1 + Len(time_steps)
             /\ \A j \in 1..(1 + Len(time_steps)) : state'[j] = state[j]]_vars

\* The second solve() on a grid of two points has returned.
C9_Witness ==
    /\ pc = "idle" /\ done = 2 /\ Len(time_steps) = 2 /\ Len(state) = 5
    /\ state[5] # state[3]

\* C10: solve() leaves the parameters of the model and of the solver alone;
\* it changes state only in a pass of its loop, one entry per grid point; it
\* sets solving_time only when the traversal is complete, without touching
\* state; and solving_time is False until a solve() has completed.
C10_SolveFrame ==
    /\ [](done = 0 => solving_time = PyFalse)
    /\ [](pc = "loop" => Len(state) = 1 + done * Len(time_steps) + it)
    /\ [][/\ Built => UNCHANGED <<modelFields, solverFields>>
          /\ solving_time' # solving_time =>
                (pc = "loop" /\ it = Len(time_steps) /\ state' = state)
          /\ (Built /\ state' # state) =>
                /\ pc = "loop" /\ it < Len(time_steps) /\ it' = it + 1
                /\ Len(state') = Len(state) + 1]_vars

\* A solve() over two grid points has returned and recorded its duration.
C10_Witness ==
    /\ pc = "idle" /\ done = 1 /\ solving_time.kind = "float"
    /\ Len(state) = 3

=============================================================================
